---- MODULE Spec2Model ----
(***************************************************************************)
(* Model of the two LLM adapters of NotebookLight-Ollama:                  *)
(*   services/ollamaService.ts  (local variant, streaming HTTP)            *)
(*   services/geminiService.ts  (cloud variant, SDK call)                  *)
(* Texts are TLA+ strings, JSON values are tagged records, JSON.parse is   *)
(* a recursive-descent parser over the characters of the text.             *)
(***************************************************************************)
EXTENDS Integers, Sequences, FiniteSets, TLC

(***************************************************************************)
(* Bounds of the model.                                                    *)
(***************************************************************************)
\* number of newline-delimited lines in a chat stream of the local backend
MaxLines == 2

(***************************************************************************)
(* JavaScript strings.                                                     *)
(***************************************************************************)
CharAt(s, i) == IF i >= 1 /\ i <= Len(s) THEN SubSeq(s, i, i) ELSE ""

\* white space removed by String.prototype.trim (restricted to ASCII)
IsTrimWs(c) == c \in {" ", "\n", "\r", "\t", "\f"}

RECURSIVE TrimStart(_)
TrimStart(s) ==
    IF Len(s) > 0 /\ IsTrimWs(CharAt(s, 1)) THEN TrimStart(Tail(s)) ELSE s

RECURSIVE TrimEnd(_)
TrimEnd(s) ==
    IF Len(s) > 0 /\ IsTrimWs(CharAt(s, Len(s)))
    THEN TrimEnd(SubSeq(s, 1, Len(s) - 1))
    ELSE s

\* String.prototype.trim
Trim(s) == TrimEnd(TrimStart(s))

\* String.prototype.slice(0, n)
Slice0(s, n) == IF Len(s) <= n THEN s ELSE SubSeq(s, 1, n)

SetMin(S) == CHOOSE x \in S : \A y \in S : x <= y
SetMax(S) == CHOOSE x \in S : \A y \in S : y <= x

\* positions of the character c in s
Positions(s, c) == {i \in 1..Len(s) : CharAt(s, i) = c}

\* String.prototype.split("\n")
RECURSIVE SplitNewline(_)
SplitNewline(s) ==
    LET nl == Positions(s, "\n") IN
    IF nl = {} THEN <<s>>
    ELSE LET i == SetMin(nl) IN
         <<SubSeq(s, 1, i - 1)>> \o SplitNewline(SubSeq(s, i + 1, Len(s)))

\* Array.prototype.filter(Boolean) on an array of strings
FilterNonEmpty(ss) == SelectSeq(ss, LAMBDA l : l # "")

\* Array.prototype.join(sep) on an array of strings
RECURSIVE Join(_, _)
Join(ss, sep) ==
    IF Len(ss) = 0 THEN ""
    ELSE IF Len(ss) = 1 THEN ss[1]
    ELSE ss[1] \o sep \o Join(Tail(ss), sep)

\* concatenation of an array of strings
RECURSIVE ConcatRange(_, _, _)
ConcatRange(ss, lo, hi) ==
    IF lo > hi THEN ""
    ELSE IF lo = hi THEN ss[lo]
    ELSE LET mid == (lo + hi) \div 2 IN
         ConcatRange(ss, lo, mid) \o ConcatRange(ss, mid + 1, hi)

Concat(ss) == ConcatRange(ss, 1, Len(ss))

\* decimal rendering of a non-negative integer (template literal, String(n))
RECURSIVE ToDecimal(_)
ToDecimal(n) ==
    IF n < 10 THEN CharAt("0123456789", n + 1)
    ELSE ToDecimal(n \div 10) \o CharAt("0123456789", (n % 10) + 1)

(***************************************************************************)
(* JavaScript values as produced by JSON.parse.                            *)
(* jt is the type tag; s the text of a string or the literal of a number;  *)
(* kids the elements of an array or the member values of an object, keys   *)
(* the member names of an object.                                          *)
(***************************************************************************)
JVal(t, s, keys, kids) == [jt |-> t, s |-> s, keys |-> keys, kids |-> kids]
JUndefined  == JVal("undefined", "", <<>>, <<>>)
JNull       == JVal("null", "", <<>>, <<>>)
JTrue       == JVal("true", "", <<>>, <<>>)
JFalse      == JVal("false", "", <<>>, <<>>)
JNum(lit)   == JVal("num", lit, <<>>, <<>>)
JStr(s)     == JVal("str", s, <<>>, <<>>)
JArr(kids)  == JVal("arr", "", <<>>, kids)
JObj(keys, kids) == JVal("obj", "", keys, kids)
\* the SyntaxError JSON.parse throws, as a value of its own
JSyntaxError == JVal("SyntaxError", "", <<>>, <<>>)

\* Array.isArray
IsArray(v) == v.jt = "arr"

\* truthiness of a value
Truthy(v) ==
    CASE v.jt \in {"undefined", "null", "false", "SyntaxError"} -> FALSE
      [] v.jt = "num" -> v.s # "0"
      [] v.jt = "str" -> v.s # ""
      [] OTHER -> TRUE

\* v.key for a value that is neither null nor undefined
Prop(v, key) ==
    IF v.jt = "obj" /\ \E i \in 1..Len(v.keys) : v.keys[i] = key
    THEN v.kids[SetMax({i \in 1..Len(v.keys) : v.keys[i] = key})]
    ELSE JUndefined

\* v?.key
OptProp(v, key) ==
    IF v.jt \in {"null", "undefined"} THEN JUndefined ELSE Prop(v, key)

\* String(v), also the conversion of `result += v`
RECURSIVE JSString(_)
JSString(v) ==
    CASE v.jt = "str" -> v.s
      [] v.jt = "num" -> v.s
      [] v.jt = "arr" ->
            Join([i \in 1..Len(v.kids) |->
                    IF v.kids[i].jt \in {"null", "undefined"} THEN ""
                    ELSE JSString(v.kids[i])], ",")
      [] v.jt = "obj" -> "[object Object]"
      [] OTHER -> v.jt

(***************************************************************************)
(* JSON.parse: strings with the escapes \" \\ \/ \n \r \t, non-negative    *)
(* integers, true, false, null, arrays and objects.                        *)
(***************************************************************************)
IsJsonWs(c) == c \in {" ", "\n", "\r", "\t"}
IsDigit(c) == c \in {"0", "1", "2", "3", "4", "5", "6", "7", "8", "9"}

PFail == [ok |-> FALSE, v |-> JUndefined, p |-> 0]
POk(v, p) == [ok |-> TRUE, v |-> v, p |-> p]

RECURSIVE SkipWs(_, _)
SkipWs(s, i) == IF IsJsonWs(CharAt(s, i)) THEN SkipWs(s, i + 1) ELSE i

RECURSIVE DigitsEnd(_, _)
DigitsEnd(s, i) == IF IsDigit(CharAt(s, i)) THEN DigitsEnd(s, i + 1) ELSE i

ParseNumber(s, i) ==
    LET e == DigitsEnd(s, i) IN
    IF e - i > 1 /\ CharAt(s, i) = "0" THEN PFail
    ELSE POk(JNum(SubSeq(s, i, e - 1)), e)

\* number of consecutive backslashes that end at position j, counted back
\* no further than position lo
RECURSIVE BackslashRun(_, _, _)
BackslashRun(s, j, lo) ==
    IF j >= lo /\ CharAt(s, j) = "\\" THEN 1 + BackslashRun(s, j - 1, lo) ELSE 0

\* the character an escape sequence \c stands for ("" when there is none)
Unescape(c) ==
    CASE c = "\"" -> "\""
      [] c = "\\" -> "\\"
      [] c = "/"  -> "/"
      [] c = "n"  -> "\n"
      [] c = "r"  -> "\r"
      [] c = "t"  -> "\t"
      [] OTHER    -> ""

\* the backslash at position p starts an escape sequence of the string
\* literal whose text starts at position i
EscapeAt(s, i, p) ==
    CharAt(s, p) = "\\" /\ BackslashRun(s, p - 1, i) % 2 = 0

\* the character at position p is the second character of an escape sequence
Escaped(s, i, p) == p > i /\ EscapeAt(s, i, p - 1)

\* the positions of the quotes that can close the literal
ClosingQuotes(s, i) ==
    {j \in i..Len(s) : CharAt(s, j) = "\"" /\ ~Escaped(s, i, j)}

\* a character JSON does not allow at position p of a string literal
BadChar(s, i, p) ==
    IF Escaped(s, i, p) THEN Unescape(CharAt(s, p)) = ""
    ELSE CharAt(s, p) \in {"\n", "\r", "\t", "\f"}

\* what the character at position p adds to the decoded string
DecodeChar(s, i, p) ==
    IF Escaped(s, i, p) THEN Unescape(CharAt(s, p))
    ELSE IF CharAt(s, p) = "\\" THEN ""
    ELSE CharAt(s, p)

\* the literal whose closing quote is at position e
StringBody(s, i, e) ==
    IF \E p \in i..(e - 1) : BadChar(s, i, p) THEN PFail
    ELSE POk(JStr(Concat([k \in 1..(e - i) |-> DecodeChar(s, i, i + k - 1)])),
             e + 1)

StringUpTo(s, i, closing) ==
    IF closing = {} THEN PFail ELSE StringBody(s, i, SetMin(closing))

\* a string literal; i is the position after the opening quote
ParseString(s, i) == StringUpTo(s, i, ClosingQuotes(s, i))

RECURSIVE ParseValue(_, _), ParseElems(_, _, _), ParseMembers(_, _, _, _),
          ParseMember(_, _, _, _)
ParseValue(s, i) ==
    LET j == SkipWs(s, i)
        c == CharAt(s, j)
    IN  CASE c = "\"" -> ParseString(s, j + 1)
          [] c = "[" ->
                LET k == SkipWs(s, j + 1) IN
                IF CharAt(s, k) = "]" THEN POk(JArr(<<>>), k + 1)
                ELSE ParseElems(s, j + 1, <<>>)
          [] c = "{" ->
                LET k == SkipWs(s, j + 1) IN
                IF CharAt(s, k) = "}" THEN POk(JObj(<<>>, <<>>), k + 1)
                ELSE ParseMembers(s, j + 1, <<>>, <<>>)
          [] IsDigit(c) -> ParseNumber(s, j)
          [] c = "t" /\ SubSeq(s, j, SetMin({j + 3, Len(s)})) = "true" ->
                POk(JTrue, j + 4)
          [] c = "f" /\ SubSeq(s, j, SetMin({j + 4, Len(s)})) = "false" ->
                POk(JFalse, j + 5)
          [] c = "n" /\ SubSeq(s, j, SetMin({j + 3, Len(s)})) = "null" ->
                POk(JNull, j + 4)
          [] OTHER -> PFail

\* the elements of an array, i after "[" or after ","
ParseElems(s, i, acc) ==
    LET r == ParseValue(s, i) IN
    IF ~r.ok THEN PFail
    ELSE LET k == SkipWs(s, r.p)
             c == CharAt(s, k)
         IN  IF c = "," THEN ParseElems(s, k + 1, Append(acc, r.v))
             ELSE IF c = "]" THEN POk(JArr(Append(acc, r.v)), k + 1)
             ELSE PFail

\* the members of an object, i after "{" or after ","
ParseMembers(s, i, keys, kids) ==
    LET j == SkipWs(s, i) IN
    IF CharAt(s, j) # "\"" THEN PFail
    ELSE ParseMember(s, ParseString(s, j + 1), keys, kids)

\* the rest of a member whose name has been read as key
ParseMember(s, key, keys, kids) ==
    IF ~key.ok THEN PFail
    ELSE LET k == SkipWs(s, key.p) IN
         IF CharAt(s, k) # ":" THEN PFail
         ELSE LET r == ParseValue(s, k + 1) IN
              IF ~r.ok THEN PFail
              ELSE LET m == SkipWs(s, r.p)
                       c == CharAt(s, m)
                       ks == Append(keys, key.v.s)
                       vs == Append(kids, r.v)
                   IN  IF c = "," THEN ParseMembers(s, m + 1, ks, vs)
                       ELSE IF c = "}" THEN POk(JObj(ks, vs), m + 1)
                       ELSE PFail

\* the parsed value r when nothing but white space follows it
WholeText(text, r) ==
    IF r.ok /\ SkipWs(text, r.p) > Len(text) THEN r.v ELSE JSyntaxError

\* JSON.parse(text): the value, or JSyntaxError where JSON.parse throws
JSONParse(text) == WholeText(text, ParseValue(text, 1))

(***************************************************************************)
(* Errors and the outcome of an asynchronous call.                         *)
(***************************************************************************)
Err(name, message) == [name |-> name, message |-> message]
NoError == Err("", "")

Pending == [kind |-> "none", text |-> "", cards |-> <<>>, err |-> NoError]
Returned(text) == [kind |-> "return", text |-> text, cards |-> <<>>, err |-> NoError]
ReturnedCards(cards) ==
    [kind |-> "return", text |-> "", cards |-> cards, err |-> NoError]
Thrown(err) == [kind |-> "throw", text |-> "", cards |-> <<>>, err |-> err]

\* rejections of the platform: fetch(), Response.text(), reader.read()
FetchFailed == Err("TypeError", "Failed to fetch")
BodyFailed == Err("TypeError", "network error")

(***************************************************************************)
(* The local backend: what the server at OLLAMA_URL answers.               *)
(***************************************************************************)
Statuses == {200, 300, 404, 500}
ErrBodies == {"", "model not found", "{\"error\":\"oops\"}\n"}

\* res.ok
IsOk(st) == st >= 200 /\ st <= 299

\* A line of the stream: its text, the `response` fragment of its object
\* (frag, "" when the object has none), and the `response` fragments of the
\* parts of the text that are complete JSON texts by themselves (inner).
StreamLine(text, frag, inner) == [text |-> text, frag |-> frag, inner |-> inner]

\* the objects the server may stream: fragments with white space at either
\* end, an object without fragment, an object that nests another one, and
\* a line that ends with a carriage return
ChatLines ==
    { StreamLine("{\"response\":\" a\"}", " a", {}),
      StreamLine("{\"response\":\"b\\n\"}", "b\n", {}),
      StreamLine("{\"done\":true}", "", {}),
      StreamLine("{\"a\":{\"response\":\"c\"}}", "", {"c"}),
      StreamLine("{\"response\":\"d\"}\r", "d", {"d"}) }

\* sequences of at most n elements of S
RECURSIVE SeqsUpTo(_, _)
SeqsUpTo(S, n) ==
    IF n = 0 THEN {<<>>}
    ELSE LET shorter == SeqsUpTo(S, n - 1) IN
         shorter \cup {Append(q, x) : q \in shorter, x \in S}

\* the text of the response body: every line followed by a newline
RECURSIVE BodyOf(_)
BodyOf(ls) == IF ls = <<>> THEN "" ELSE ls[1].text \o "\n" \o BodyOf(Tail(ls))

(***************************************************************************)
(* queryOllama: the read loop.                                             *)
(***************************************************************************)
\* a loop body that puts the fragment in front of the accumulator
ProcessLineInFront(acc, line) ==
    IF Truthy(OptProp(JSONParse(line), "response"))
    THEN JSString(Prop(JSONParse(line), "response")) \o acc
    ELSE acc

\* the body of the try block for one line; a SyntaxError of JSON.parse and
\* the TypeError of reading a property of null are caught and ignored
ProcessLine(acc, line) ==
    LET json == JSONParse(line) IN
    IF json.jt \in {"SyntaxError", "null"} THEN acc
    ELSE IF Truthy(Prop(json, "response"))
         THEN acc \o JSString(Prop(json, "response"))
         ELSE acc

RECURSIVE ProcessLines(_, _)
ProcessLines(acc, ls) ==
    IF ls = <<>> THEN acc
    ELSE ProcessLines(ProcessLine(acc, ls[1]), Tail(ls))

\* one iteration of the while loop on a decoded chunk
ProcessChunk(acc, chunk) ==
    ProcessLines(acc, FilterNonEmpty(SplitNewline(chunk)))

\* a message that leaves out the body text of the response
OllamaErrorMessageNoBody(st, errText) == "Ollama error " \o ToDecimal(st)

\* the message of the Error thrown for a response that is not ok
OllamaErrorMessage(st, errText) ==
    "Ollama error " \o ToDecimal(st) \o ": " \o errText

NoBodyText == "(no response body)"

(***************************************************************************)
(* The texts a backend may generate for the flashcard prompt.              *)
(***************************************************************************)
\* s repeated n times
RECURSIVE Repeat(_, _)
Repeat(s, n) ==
    IF n = 0 THEN ""
    ELSE IF n % 2 = 0 THEN LET h == Repeat(s, n \div 2) IN h \o h
    ELSE s \o Repeat(s, n - 1)

OneCard == "{\"question\":\"Q\",\"answer\":\"A\"}"

FlashTexts ==
    { "[" \o OneCard \o ",{\"question\":\"R\",\"answer\":\"B\"}]",
      "[]",
      "Here: [" \o OneCard \o "] ok",
      "{\"cards\":[" \o OneCard \o "]}",
      "[1] or [" \o OneCard \o "]",
      "[{\"question\":5,\"answer\":true},{\"answer\":null},7,{\"question\":\" Q \",\"answer\":{}}]",
      "no cards",
      "[oops]",
      "5" }

\* texts only the cloud backend is given: white space around the text, and
\* texts longer than the cap of the summary record
CloudOnlyTexts ==
    { " [" \o OneCard \o "]\n",
      " no cards\n",
      Repeat("x", 1005),
      "see [" \o Repeat("x", 1000) \o "]" }

\* JSON encoding of a string by the server
EscapeChar(c) ==
    CASE c = "\"" -> "\\\""
      [] c = "\\" -> "\\\\"
      [] c = "\n" -> "\\n"
      [] OTHER -> c

Escape(s) == Concat([k \in 1..Len(s) |-> EscapeChar(CharAt(s, k))])

\* the stream line that carries the fragment frag
FragmentLine(frag) ==
    StreamLine("{\"response\":\"" \o Escape(frag) \o "\"}", frag, {})

(***************************************************************************)
(* generateFlashcards: the structured extractor.                           *)
(***************************************************************************)
SummaryCap == 1000
SummaryLabel == "Summary"

\* text.match(/\[[\s\S]*\]/): from the first "[" to the last "]" after it
RegexArrayMatch(text) ==
    LET opens == Positions(text, "[") IN
    IF opens = {} THEN [found |-> FALSE, m |-> ""]
    ELSE LET i == SetMin(opens)
             closes == {j \in Positions(text, "]") : j > i}
         IN  IF closes = {} THEN [found |-> FALSE, m |-> ""]
             ELSE [found |-> TRUE, m |-> SubSeq(text, i, SetMax(closes))]

\* cloud: the value of arr after the nested try blocks (JNull for null)
ExtractArrayCloud(text) ==
    LET parsed == JSONParse(text) IN
    IF parsed.jt # "SyntaxError"
    THEN IF IsArray(parsed) THEN parsed ELSE JNull
    ELSE LET m == RegexArrayMatch(text) IN
         IF ~m.found THEN JNull
         ELSE LET inner == JSONParse(m.m) IN
              IF IsArray(inner) THEN inner ELSE JNull

\* `flashcard-${Date.now()}-${i}`
FlashcardId(now, i) == "flashcard-" \o ToDecimal(now) \o "-" \o ToDecimal(i)

\* String(card?.field ?? "").trim()
CoerceField(card, field) ==
    LET v == OptProp(card, field) IN
    IF v.jt \in {"null", "undefined"} THEN "" ELSE Trim(JSString(v))

Card(id, question, answer) ==
    JObj(<<"id", "question", "answer">>, <<JStr(id), JStr(question), JStr(answer)>>)

\* cloud: (arr || []).map(...)
MapCardsCloud(arr, now) ==
    IF arr.jt = "null" THEN <<>>
    ELSE [i \in 1..Len(arr.kids) |->
            Card(FlashcardId(now, i - 1),
                 CoerceField(arr.kids[i], "question"),
                 CoerceField(arr.kids[i], "answer"))]

\* a summary record that carries the text at its full length
SummaryCardCloudNoCap(text, now) ==
    Card(FlashcardId(now, 0), SummaryLabel, text)

\* cloud: the summary record
SummaryCardCloud(text, now) ==
    Card(FlashcardId(now, 0), SummaryLabel, Slice0(text, SummaryCap))

\* cloud: the cards returned for the trimmed text of the response
FlashcardsCloud(text, now) ==
    LET cards == MapCardsCloud(ExtractArrayCloud(text), now) IN
    IF Len(cards) # 0 THEN cards ELSE <<SummaryCardCloud(text, now)>>

\* local: the summary record
SummaryCardLocal(text) ==
    JObj(<<"question", "answer">>, <<JStr(SummaryLabel), JStr(text)>>)

\* local: the value returned for the text of queryOllama
FlashcardsLocal(text) ==
    LET parsed == JSONParse(text) IN
    IF IsArray(parsed) THEN parsed.kids ELSE <<SummaryCardLocal(text)>>

(***************************************************************************)
(* The cloud backend: the SDK client and its responses.                    *)
(***************************************************************************)
\* what the client made at module load exposes
ClientShapes == {"getGenerativeModel", "models.generateContent", "unexpected"}

ShapeError == Err("Error", "Your @google/genai version has an unexpected API shape.")
SdkFailed == Err("Error", "generateContent failed")
AccessorFailed == Err("Error", "response.text() failed")

\* A response of generateContent: whether res.response exists, the kind of
\* res.response.text and its value (the returned string of a function, the
\* string itself), res.response.candidates, and what the documentation of
\* the response says the candidates hold: the texts of the parts of the
\* first candidate that are not empty, joined by newlines (partsText).
Response(hasResponse, textKind, textVal, cand) ==
    [hasResponse |-> hasResponse, textKind |-> textKind, textVal |-> textVal,
     candidates |-> cand.json, partsText |-> cand.partsText]

Candidates(json, partsText) == [json |-> json, partsText |-> partsText]
NoCandidates == Candidates(JUndefined, "")

NoResponse == Response(FALSE, "undefined", "", NoCandidates)

CandidateShapes ==
    { NoCandidates,
      Candidates(JSONParse("[{\"content\":{\"parts\":[{\"text\":\"a\"},{\"text\":\"b\"}]}}]"), "a\nb"),
      Candidates(JSONParse("[{\"content\":{\"parts\":[{\"text\":\"\"},{},null,{\"text\":\"c\"}]}}]"), "c"),
      Candidates(JSONParse("[{\"content\":{\"parts\":[]}}]"), ""),
      Candidates(JSONParse("[{\"content\":{\"parts\":\"p\"}}]"), ""),
      Candidates(JSONParse("[]"), "") }

ChatResponses ==
    {NoResponse}
    \cup {Response(TRUE, k, v, c) :
            k \in {"function", "string"}, v \in {"hi", ""}, c \in CandidateShapes}
    \cup {Response(TRUE, k, "", c) :
            k \in {"throwing function", "number", "undefined"}, c \in CandidateShapes}

FlashResponses ==
    {NoResponse, Response(TRUE, "throwing function", "", NoCandidates)}
    \cup {Response(TRUE, "string", t, NoCandidates) : t \in FlashTexts \cup CloudOnlyTexts}

Responses(o) == IF o = "generateFlashcards" THEN FlashResponses ELSE ChatResponses

\* Date.now(); the records of one call are given the same reading
Clock == {7, 1234}

\* getModel(name): TRUE when it throws
GetModelThrows(shape) ==
    shape \notin {"getGenerativeModel", "models.generateContent"}

\* c?.[0]
First(c) == IF IsArray(c) /\ Len(c.kids) > 0 THEN c.kids[1] ELSE JUndefined

\* parts.map((p) => p?.text).filter(Boolean).join("\n")
PartsText(parts) ==
    LET texts == [i \in 1..Len(parts.kids) |-> OptProp(parts.kids[i], "text")]
        kept == SelectSeq(texts, Truthy)
    IN  Join([i \in 1..Len(kept) |-> JSString(kept[i])], "\n")

\* a normalizer that goes on to the candidates when the text accessor or the
\* text field gives the empty string
toTextFirstNonEmpty(res) ==
    LET t == IF res.hasResponse THEN res.textKind ELSE "undefined"
        c == First(IF res.hasResponse THEN res.candidates ELSE JUndefined)
        parts == OptProp(OptProp(c, "content"), "parts")
    IN  IF t = "throwing function" THEN Thrown(AccessorFailed)
        ELSE IF t \in {"function", "string"} /\ res.textVal # ""
             THEN Returned(res.textVal)
        ELSE IF IsArray(parts) THEN Returned(PartsText(parts))
        ELSE Returned("")

\* toText(res): the outcome of the returned promise
toText(res) ==
    LET t == IF res.hasResponse THEN res.textKind ELSE "undefined" IN
    IF t = "function" THEN Returned(res.textVal)
    ELSE IF t = "throwing function" THEN Thrown(AccessorFailed)
    ELSE IF t = "string" THEN Returned(res.textVal)
    ELSE LET c == First(IF res.hasResponse THEN res.candidates ELSE JUndefined)
             parts == OptProp(OptProp(c, "content"), "parts")
         IN  IF IsArray(parts) /\ PartsText(parts) # ""
             THEN Returned(PartsText(parts))
             ELSE Returned("")

(***************************************************************************)
(* The methods of geminiService, after the backend has answered.           *)
(* Each gives the outcome of the call and what it wrote to console.error.  *)
(***************************************************************************)
Apology == "Sorry, I encountered an error while processing your question."
ReportApology == "Sorry, I encountered an error while generating the report."
\* the source spells the apostrophe of this text with U+2019
NoAnswer == "I couldn't produce an answer."
NoReport == "No report text returned."

LogEntry(label, err) == [label |-> label, err |-> err]
Settled(outcome, logged) == [out |-> outcome, log |-> logged]

\* an askQuestion whose await is not inside a try block
AskQuestionLocalNoCatch(qo) == Settled(qo, <<>>)

\* local askQuestion: try { return await queryOllama(prompt) } catch
AskQuestionLocal(qo) ==
    IF qo.kind = "throw"
    THEN Settled(Returned(Apology), <<LogEntry("askQuestion (Ollama) error:", qo.err)>>)
    ELSE Settled(qo, <<>>)

\* local generateReport: return await queryOllama(prompt)
GenerateReportLocal(qo) == Settled(qo, <<>>)

\* local generateFlashcards: the await is outside the try block
GenerateFlashcardsLocal(qo) ==
    IF qo.kind = "throw" THEN Settled(qo, <<>>)
    ELSE Settled(ReturnedCards(FlashcardsLocal(qo.text)), <<>>)

\* the outcome of generateContent
Generated(res) == [kind |-> "return", res |-> res, err |-> NoError]
GenerateThrew(err) == [kind |-> "throw", res |-> NoResponse, err |-> err]
NotGenerated == [kind |-> "none", res |-> NoResponse, err |-> NoError]

\* the outcome of `await toText(res)` in a method, Pending when not reached
Normalized(g) == IF g.kind = "return" THEN toText(g.res) ELSE Pending

\* the error that reaches the catch block of a cloud method
CaughtCloud(g) == IF g.kind = "throw" THEN g.err ELSE Normalized(g).err

FailedCloud(g) == g.kind = "throw" \/ Normalized(g).kind = "throw"

\* cloud askQuestion
AskQuestionCloud(g) ==
    IF FailedCloud(g)
    THEN Settled(Returned(Apology), <<LogEntry("askQuestion error:", CaughtCloud(g))>>)
    ELSE LET t == Normalized(g).text IN
         Settled(Returned(IF t # "" THEN t ELSE NoAnswer), <<>>)

\* cloud generateReport
GenerateReportCloud(g) ==
    IF FailedCloud(g)
    THEN Settled(Returned(ReportApology), <<LogEntry("generateReport error:", CaughtCloud(g))>>)
    ELSE LET t == Normalized(g).text IN
         Settled(Returned(IF t # "" THEN t ELSE NoReport), <<>>)

\* cloud generateFlashcards
GenerateFlashcardsCloud(g, now) ==
    IF FailedCloud(g)
    THEN Settled(ReturnedCards(<<>>), <<LogEntry("generateFlashcards error:", CaughtCloud(g))>>)
    ELSE Settled(ReturnedCards(FlashcardsCloud(Trim(Normalized(g).text), now)), <<>>)

(***************************************************************************)
(* State.                                                                  *)
(***************************************************************************)
VARIABLES
    variant,    \* the deployed service: "local" (ollamaService.ts) or
                \* "cloud" (geminiService.ts)
    clientShape,\* cloud: what the client made at module load exposes
    op,         \* the method of geminiService that was called
    pc,         \* position of the call
    fetches,    \* local: number of fetch() requests issued
    status,     \* local: res.status
    errBody,    \* local: the body text of a response that is not ok
    lines,      \* local: the lines of the response body, as the server wrote them
    wire,       \* local: the part of the body reader.read() has not delivered
    readerTaken,\* local: res.body.getReader() was called
    result,     \* local: the accumulator of queryOllama
    lineNo,     \* local: index of the line the next delivered character is in
    cut,        \* local: indices of the lines a chunk boundary fell inside
    q,          \* local: outcome of queryOllama
    gen,        \* cloud: outcome of getModel(...).generateContent(prompt)
    norm,       \* cloud: outcome of toText(res)
    text,       \* generateFlashcards: the text handed to the extractor
    out,        \* outcome of the call
    log         \* console.error records

vars == <<variant, clientShape, op, pc, fetches, status, errBody, lines, wire,
          readerTaken, result, lineNo, cut, q, gen, norm, text, out, log>>

localVars == <<fetches, status, errBody, lines, wire, readerTaken, result,
               lineNo, cut, q>>
cloudVars == <<gen, norm>>

Ops == {"askQuestion", "generateReport", "generateFlashcards"}

\* the response bodies the server may stream for a call
Streams(o) ==
    CASE o = "askQuestion" -> SeqsUpTo(ChatLines, MaxLines)
      [] o = "generateReport" -> SeqsUpTo(ChatLines, 1)
      [] OTHER -> {<<FragmentLine(t)>> : t \in FlashTexts}

\* the state after the module is loaded
Init ==
    /\ \/ variant = "local" /\ clientShape = "none"
       \/ variant = "cloud" /\ clientShape \in ClientShapes
    /\ op = "none"
    /\ pc = "idle"
    /\ fetches = 0
    /\ status = 0
    /\ errBody = ""
    /\ lines = <<>>
    /\ wire = ""
    /\ readerTaken = FALSE
    /\ result = ""
    /\ lineNo = 1
    /\ cut = {}
    /\ q = Pending
    /\ gen = NotGenerated
    /\ norm = Pending
    /\ text = ""
    /\ out = Pending
    /\ log = <<>>

(***************************************************************************)
(* The local variant.                                                      *)
(***************************************************************************)
\* a method of the local service is called: it builds the prompt and calls
\* queryOllama
CallLocal(o) ==
    /\ pc = "idle"
    /\ variant = "local"
    /\ op' = o
    /\ pc' = "fetch"
    /\ UNCHANGED <<variant, clientShape, localVars, cloudVars, text, out, log>>

\* await fetch(...) rejects
FetchRejects ==
    /\ pc = "fetch"
    /\ fetches' = fetches + 1
    /\ q' = Thrown(FetchFailed)
    /\ pc' = "settle"
    /\ UNCHANGED <<variant, clientShape, op, status, errBody, lines, wire,
                   readerTaken, result, lineNo, cut, cloudVars, text, out, log>>

\* await fetch(...) resolves with a response that is not ok
FetchNotOk(st, b) ==
    /\ pc = "fetch"
    /\ ~IsOk(st)
    /\ fetches' = fetches + 1
    /\ status' = st
    /\ errBody' = b
    /\ pc' = "text"
    /\ UNCHANGED <<variant, clientShape, op, lines, wire, readerTaken, result,
                   lineNo, cut, q, cloudVars, text, out, log>>

\* await res.text() of a response that is not ok: it resolves and the Error
\* is thrown, or it rejects
ErrorText ==
    /\ pc = "text"
    /\ \/ q' = Thrown(Err("Error", OllamaErrorMessage(status, errBody)))
       \/ q' = Thrown(BodyFailed)
    /\ pc' = "settle"
    /\ UNCHANGED <<variant, clientShape, op, fetches, status, errBody, lines,
                   wire, readerTaken, result, lineNo, cut, cloudVars, text,
                   out, log>>

\* await fetch(...) resolves with an ok response that has no body
FetchOkNoBody(st) ==
    /\ pc = "fetch"
    /\ IsOk(st)
    /\ fetches' = fetches + 1
    /\ status' = st
    /\ q' = Returned(NoBodyText)
    /\ pc' = "settle"
    /\ UNCHANGED <<variant, clientShape, op, errBody, lines, wire, readerTaken,
                   result, lineNo, cut, cloudVars, text, out, log>>

\* await fetch(...) resolves with an ok response; the reader is taken
FetchOk(st, ls) ==
    /\ pc = "fetch"
    /\ variant = "local"
    /\ IsOk(st)
    /\ fetches' = fetches + 1
    /\ status' = st
    /\ lines' = ls
    /\ wire' = BodyOf(ls)
    /\ readerTaken' = TRUE
    /\ result' = ""
    /\ pc' = "read"
    /\ UNCHANGED <<variant, clientShape, op, errBody, lineNo, cut, q,
                   cloudVars, text, out, log>>

\* reader.read() delivers the next k characters of the body as one chunk
ReadChunk(k) ==
    /\ pc = "read"
    /\ k >= 1 /\ k <= Len(wire)
    /\ LET chunk == SubSeq(wire, 1, k)
           ln == lineNo + Cardinality(Positions(chunk, "\n"))
       IN  /\ result' = ProcessChunk(result, chunk)
           /\ wire' = SubSeq(wire, k + 1, Len(wire))
           /\ lineNo' = ln
           /\ cut' = IF k < Len(wire) /\ CharAt(wire, k) # "\n"
                        /\ CharAt(wire, k + 1) # "\n"
                     THEN cut \cup {ln}
                     ELSE cut
    /\ UNCHANGED <<variant, clientShape, op, pc, fetches, status, errBody,
                   lines, readerTaken, q, cloudVars, text, out, log>>

\* reader.read() reports done: return result.trim()
ReadDone ==
    /\ pc = "read"
    /\ wire = ""
    /\ q' = Returned(Trim(result))
    /\ pc' = "settle"
    /\ UNCHANGED <<variant, clientShape, op, fetches, status, errBody, lines,
                   wire, readerTaken, result, lineNo, cut, cloudVars, text,
                   out, log>>

\* reader.read() rejects: the connection broke
ReadRejects ==
    /\ pc = "read"
    /\ q' = Thrown(BodyFailed)
    /\ pc' = "settle"
    /\ UNCHANGED <<variant, clientShape, op, fetches, status, errBody, lines,
                   wire, readerTaken, result, lineNo, cut, cloudVars, text,
                   out, log>>

\* the rest of the local method once queryOllama has settled
SettleLocal(settled) ==
    /\ pc = "settle"
    /\ variant = "local"
    /\ out' = settled.out
    /\ log' = log \o settled.log
    /\ pc' = "done"
    /\ UNCHANGED <<variant, clientShape, op, localVars, cloudVars>>

AskQuestionLocalDone ==
    /\ op = "askQuestion"
    /\ SettleLocal(AskQuestionLocal(q))
    /\ UNCHANGED text

GenerateReportLocalDone ==
    /\ op = "generateReport"
    /\ SettleLocal(GenerateReportLocal(q))
    /\ UNCHANGED text

GenerateFlashcardsLocalDone ==
    /\ op = "generateFlashcards"
    /\ SettleLocal(GenerateFlashcardsLocal(q))
    /\ text' = q.text

(***************************************************************************)
(* The cloud variant.                                                      *)
(***************************************************************************)
\* a method of the cloud service is called: it builds the prompt inside its
\* try block
CallCloud(o) ==
    /\ pc = "idle"
    /\ variant = "cloud"
    /\ op' = o
    /\ pc' = "generate"
    /\ UNCHANGED <<variant, clientShape, localVars, cloudVars, text, out, log>>

\* getModel(name) throws
GetModelFails ==
    /\ pc = "generate"
    /\ GetModelThrows(clientShape)
    /\ gen' = GenerateThrew(ShapeError)
    /\ pc' = "settle"
    /\ UNCHANGED <<variant, clientShape, op, localVars, norm, text, out, log>>

\* await getModel(name).generateContent(prompt) rejects
GenerateRejects ==
    /\ pc = "generate"
    /\ ~GetModelThrows(clientShape)
    /\ gen' = GenerateThrew(SdkFailed)
    /\ pc' = "settle"
    /\ UNCHANGED <<variant, clientShape, op, localVars, norm, text, out, log>>

\* await getModel(name).generateContent(prompt) resolves
GenerateResolves(res) ==
    /\ pc = "generate"
    /\ ~GetModelThrows(clientShape)
    /\ gen' = Generated(res)
    /\ pc' = "settle"
    /\ UNCHANGED <<variant, clientShape, op, localVars, norm, text, out, log>>

\* the rest of the cloud method once generateContent has settled
SettleCloud(settled) ==
    /\ pc = "settle"
    /\ variant = "cloud"
    /\ norm' = Normalized(gen)
    /\ out' = settled.out
    /\ log' = log \o settled.log
    /\ pc' = "done"
    /\ UNCHANGED <<variant, clientShape, op, localVars, gen>>

AskQuestionCloudDone ==
    /\ op = "askQuestion"
    /\ SettleCloud(AskQuestionCloud(gen))
    /\ UNCHANGED text

GenerateReportCloudDone ==
    /\ op = "generateReport"
    /\ SettleCloud(GenerateReportCloud(gen))
    /\ UNCHANGED text

GenerateFlashcardsCloudDone(now) ==
    /\ op = "generateFlashcards"
    /\ SettleCloud(GenerateFlashcardsCloud(gen, now))
    /\ text' = IF FailedCloud(gen) THEN "" ELSE Trim(Normalized(gen).text)

Next ==
    \/ pc = "idle" /\ \E o \in Ops : CallLocal(o)
    \/ FetchRejects
    \/ pc = "fetch" /\ \E st \in Statuses, b \in ErrBodies : FetchNotOk(st, b)
    \/ ErrorText
    \/ pc = "fetch" /\ \E st \in Statuses : FetchOkNoBody(st)
    \/ pc = "fetch" /\ \E st \in Statuses : \E ls \in Streams(op) : FetchOk(st, ls)
    \/ pc = "read" /\ \E k \in 1..Len(wire) : ReadChunk(k)
    \/ ReadDone
    \/ ReadRejects
    \/ AskQuestionLocalDone
    \/ GenerateReportLocalDone
    \/ GenerateFlashcardsLocalDone
    \/ pc = "idle" /\ \E o \in Ops : CallCloud(o)
    \/ GetModelFails
    \/ GenerateRejects
    \/ pc = "generate" /\ \E res \in Responses(op) : GenerateResolves(res)
    \/ AskQuestionCloudDone
    \/ GenerateReportCloudDone
    \/ pc = "settle" /\ \E now \in Clock : GenerateFlashcardsCloudDone(now)

Spec == Init /\ [][Next]_vars

(***************************************************************************)
(* Properties of the two services.                                         *)
(***************************************************************************)
\* sub occurs in s
Contains(s, sub) ==
    \/ sub = ""
    \/ \E i \in 0..(Len(s) - Len(sub)) : SubSeq(s, i + 1, i + Len(sub)) = sub

\* the digits of the status codes of the backend
StatusText(st) ==
    CASE st = 200 -> "200"
      [] st = 300 -> "300"
      [] st = 404 -> "404"
      [] st = 500 -> "500"

\* the `response` fields of all the objects of a stream, in order
AllFragments(ls) == Concat([i \in 1..Len(ls) |-> ls[i].frag])

\* the `response` fields of the objects whose line is not in the set c
WholeFragments(ls, c) ==
    Concat([i \in 1..Len(ls) |-> IF i \in c THEN "" ELSE ls[i].frag])

\* queryOllama has read the stream to its end and returned
StreamRead == variant = "local" /\ readerTaken /\ q.kind = "return"

\* generateFlashcards is done and the extractor was given the text
Extracted ==
    /\ op = "generateFlashcards"
    /\ pc = "done"
    /\ IF variant = "local" THEN q.kind = "return"
       ELSE gen.kind = "return" /\ norm.kind = "return"

\* the field f a record has to carry for the element el of the array: the
\* trimmed string, and "" when el has no string there
ExpectedField(el, f) ==
    IF Prop(el, f).jt = "str" THEN Trim(Prop(el, f).s) ELSE ""

IsRecordOf(card, el) ==
    \A f \in {"question", "answer"} : Prop(card, f) = JStr(ExpectedField(el, f))

\* cards holds one record per element of arr, in the order of arr
RecordsOf(cards, arr) ==
    /\ Len(cards) = Len(arr.kids)
    /\ \A i \in 1..Len(arr.kids) : IsRecordOf(cards[i], arr.kids[i])

\* the value of the text from its first "[" to its last "]"
EmbeddedArray(t) ==
    IF RegexArrayMatch(t).found THEN JSONParse(RegexArrayMatch(t).m) ELSE JNull

\* some part of the text is a JSON array
ContainsArray(t) ==
    \E i \in Positions(t, "["), j \in Positions(t, "]") :
        i < j /\ IsArray(JSONParse(SubSeq(t, i, j)))

\* C1: whatever the chunks the stream was delivered in, queryOllama returns
\* the trimmed concatenation of the `response` fields of all the objects of
\* the stream.
C1_ChunkingIndependent ==
    StreamRead => q.text = Trim(AllFragments(lines))

\* the outcome of the backend call of askQuestion, as the method sees it
AskOutcome ==
    IF variant = "local" THEN q
    ELSE IF gen.kind = "throw" THEN Thrown(gen.err)
    ELSE norm

\* C2: askQuestion never completes with a raised error, in either variant;
\* when the fetch, the status, the stream, the SDK shape, the SDK call or
\* the normalization failed, it returns the fixed apology and the error is
\* written to the log.
C2_AskQuestionNeverThrows ==
    (op = "askQuestion" /\ pc = "done") =>
        /\ out.kind = "return"
        /\ AskOutcome.kind = "throw" =>
              /\ out.text = "Sorry, I encountered an error while processing your question."
              /\ Len(log) = 1
              /\ log[1].err = AskOutcome.err

\* local askQuestion whose stream broke after a fragment had been read
C2_Witness ==
    /\ op = "askQuestion" /\ pc = "done" /\ variant = "local"
    /\ readerTaken /\ result # "" /\ q = Thrown(BodyFailed)
    /\ out = Returned(Apology)
    /\ Len(log) = 1

\* C3: generateFlashcards never completes with a raised error and returns
\* at least one record, in either variant, whatever the backend did.
C3_AlwaysSomeRecord ==
    (op = "generateFlashcards" /\ pc = "done") =>
        out.kind = "return" /\ Len(out.cards) >= 1

\* C4: when the whole text does not parse to an array and the text from its
\* first "[" to its last "]" does, the records returned are built from the
\* elements of that array.
C4_EmbeddedArrayExtracted ==
    (Extracted /\ ~IsArray(JSONParse(text)) /\ IsArray(EmbeddedArray(text))) =>
        RecordsOf(out.cards, EmbeddedArray(text))

\* C5: when the text is a JSON array, there is one record per element, in
\* order, and the question and the answer of each record are strings, those
\* of the element where the element has strings.
C5_ArrayTextGivesItsElements ==
    (Extracted /\ IsArray(JSONParse(text))) =>
        /\ Len(out.cards) = Len(JSONParse(text).kids)
        /\ \A i \in 1..Len(out.cards) : \A f \in {"question", "answer"} :
              /\ Prop(out.cards[i], f).jt = "str"
              /\ Prop(JSONParse(text).kids[i], f).jt = "str" =>
                    Trim(Prop(out.cards[i], f).s)
                        = Trim(Prop(JSONParse(text).kids[i], f).s)

\* C6: when no part of the text handed to the extractor is a JSON array,
\* exactly one record is returned; its question is "Summary" and its answer
\* is the text, in the cloud variant the first 1000 characters of the text.
C6_SummaryFallback ==
    (Extracted /\ ~ContainsArray(text)) =>
        /\ Len(out.cards) = 1
        /\ Prop(out.cards[1], "question") = JStr("Summary")
        /\ Prop(out.cards[1], "answer") =
              JStr(IF variant = "cloud" /\ Len(text) > SummaryCap
                   THEN SubSeq(text, 1, SummaryCap)
                   ELSE text)

\* the cloud variant was given a text longer than the cap and cut it
C6_Witness ==
    /\ Extracted /\ variant = "cloud"
    /\ Len(text) > SummaryCap /\ ~ContainsArray(text)
    /\ Len(out.cards) = 1
    /\ Len(Prop(out.cards[1], "answer").s) = SummaryCap

\* toText has run on the response of generateContent
ToTextRan == variant = "cloud" /\ pc = "done" /\ gen.kind = "return"

\* typeof res?.response?.text, with the two behaviours of a function
TextShape(res) == IF res.hasResponse THEN res.textKind ELSE "undefined"

\* the first string of ss that is not empty, "" when there is none
FirstNonEmpty(ss) ==
    IF \E i \in 1..Len(ss) : ss[i] # ""
    THEN ss[SetMin({i \in 1..Len(ss) : ss[i] # ""})]
    ELSE ""

\* what the three strategies of the normalizer yield for a response
StrategyTexts(res) ==
    << IF TextShape(res) = "function" THEN res.textVal ELSE "",
       IF TextShape(res) = "string" THEN res.textVal ELSE "",
       IF res.hasResponse THEN res.partsText ELSE "" >>

\* C7 as stated: toText never fails, and its result is the first text that
\* is not empty among the text accessor, the text field and the joined
\* parts of the first candidate.
C7_FirstNonEmpty ==
    ToTextRan =>
        norm.kind = "return" /\ norm.text = FirstNonEmpty(StrategyTexts(gen.res))

\* C7 as amended: the first strategy whose shape matches decides.  A
\* callable accessor gives its return value, the empty string included, and
\* its failure is the failure of toText; a string field gives that string,
\* the empty string included; for any other shape the result is the joined
\* parts of the first candidate, "" when there are none, and toText does
\* not fail.
C7_FirstMatchingShape ==
    ToTextRan =>
        /\ norm.kind = "throw" <=> TextShape(gen.res) = "throwing function"
        /\ norm.kind = "throw" => norm.err = AccessorFailed
        /\ TextShape(gen.res) \in {"function", "string"} =>
              norm.text = gen.res.textVal
        /\ TextShape(gen.res) \in {"number", "undefined"} =>
              norm.text = IF gen.res.hasResponse THEN gen.res.partsText ELSE ""

\* an empty text field in front of candidates that hold text
C7_Witness ==
    /\ ToTextRan
    /\ TextShape(gen.res) = "string" /\ gen.res.textVal = ""
    /\ gen.res.partsText # ""
    /\ norm = Returned("")

\* the backend answered with a status that is not 2xx
NotOk == variant = "local" /\ status # 0 /\ ~IsOk(status)

Contributions(line, isCut) ==
    IF isCut THEN {""} \cup line.inner ELSE {line.frag}

\* the results the lines from the i-th on may add up to
RECURSIVE PossibleResults(_, _, _)
PossibleResults(ls, c, i) ==
    IF i > Len(ls) THEN {""}
    ELSE {x \o y : x \in Contributions(ls[i], i \in c),
                   y \in PossibleResults(ls, c, i + 1)}

ExtractedArray ==
    IF variant = "cloud" THEN ExtractArrayCloud(text)
    ELSE IF IsArray(JSONParse(text)) THEN JSONParse(text)
    ELSE JNull

\* C10: every element of the extracted array has its record; the question
\* and the answer of the record are strings: the trimmed string of the
\* element, and "" where the element has no string there.
C10_FieldsCoerced ==
    (Extracted /\ IsArray(ExtractedArray)) =>
        \A i \in 1..Len(ExtractedArray.kids) :
            i <= Len(out.cards) /\ IsRecordOf(out.cards[i], ExtractedArray.kids[i])

====
